---- MODULE Spec2Model ----
(***************************************************************************)
(* A model of ttask_manager.TaskManager (src/ttask_manager/ttask_manager.py) *)
(* as a state machine: the four mappings of the store, the configuration    *)
(* fixed at construction, the JSON data file, the report file, and what a   *)
(* call printed or raised.  A Python dict is a sequence of <<key, value>> pairs in          *)
(* insertion order.  A Python value that may be a str or an int is a        *)
(* tagged record, so that values of both types live in one set.             *)
(***************************************************************************)
EXTENDS Integers, Sequences, FiniteSets, TLC

VARIABLES
    to_do,                      \* self.to_do
    done,                       \* self.done
    daily_added_tasks,          \* self.daily_added_tasks
    daily_completed_tasks,      \* self.daily_completed_tasks
    priority_levels,            \* self.priority_levels (a sequence of values)
    default_priority,           \* self.default_priority
    priorities_type,            \* self.priorities_type: "literal" | "numerical"
    priorities_order_ascending, \* self.priorities_order_ascending
    file,                       \* the file at the data path: absent, corrupt or a document
    saved,                      \* self.data at the latest save_current_state call
    report_file,                \* the file at the report path: absent, or its text
    call,                       \* the latest call: its name, its option, its arguments
    raised,                     \* the exception that call raised, or "none"
    printed,                    \* what that call printed: <<label, names>> entries
    ncalls                      \* the number of calls made so far

store == <<to_do, done, daily_added_tasks, daily_completed_tasks>>
config == <<priority_levels, default_priority, priorities_type, priorities_order_ascending>>
vars == <<to_do, done, daily_added_tasks, daily_completed_tasks, priority_levels,
          default_priority, priorities_type, priorities_order_ascending,
          file, saved, report_file, call, raised, printed, ncalls>>

(***************************************************************************)
(* Bounds of the model.                                                    *)
(***************************************************************************)
MaxArgs == 2      \* arguments of one add_task, remove_task or task_done call
MaxCalls == 4     \* calls made on one TaskManager

(***************************************************************************)
(* Python values: a str or an int.                                         *)
(***************************************************************************)
StrV(s) == [ty |-> "str", s |-> s, n |-> 0]
IntV(n) == [ty |-> "int", s |-> "", n |-> n]
FloatV(n) == [ty |-> "float", s |-> "", n |-> n]   \* a value that is neither

\* str.lower() on the strings of the model
Lower(s) ==
    CASE s = "A" -> "a"
      [] s = "B" -> "b"
      [] s = "HIGH" -> "high"
      [] s = "High" -> "high"
      [] s = "LOW" -> "low"
      [] s = "TODO" -> "todo"
      [] s = "DONE" -> "done"
      [] OTHER -> s

\* str.capitalize() on the strings of the model
Capitalize(s) ==
    CASE s \in {"high", "HIGH", "High"} -> "High"
      [] s = "medium" -> "Medium"
      [] s \in {"low", "LOW"} -> "Low"
      [] s = "urgent" -> "Urgent"
      [] s \in {"To-Do", "to-do"} -> "To-do"
      [] s \in {"Done", "done"} -> "Done"
      [] OTHER -> s

\* value.lower() for a str value
LowerV(v) == StrV(Lower(v.s))

(***************************************************************************)
(* Python dict as a sequence of <<key, value>> pairs, keys distinct.       *)
(***************************************************************************)
Range(q) == {q[i] : i \in 1..Len(q)}
Keys(d) == {d[i][1] : i \in 1..Len(d)}
KeyList(d) == [i \in 1..Len(d) |-> d[i][1]]
Has(d, k) == k \in Keys(d)
IndexOfKey(d, k) == CHOOSE i \in 1..Len(d) : d[i][1] = k
Get(d, k) == d[IndexOfKey(d, k)][2]
\* d[k] = v: an existing key keeps its position, a new key goes last
Put(d, k, v) ==
    IF Has(d, k) THEN [d EXCEPT ![IndexOfKey(d, k)] = <<k, v>>]
    ELSE Append(d, <<k, v>>)
\* d.pop(k) for a key that is present
Pop(d, k) == SelectSeq(d, LAMBDA e : e[1] # k)
Empty == <<>>

(***************************************************************************)
(* Construction: __init__ and instantiation_legibility.                    *)
(***************************************************************************)
\* The outcome of instantiation_legibility: the priorities type, or the
\* exception it raises (priority_levels[0] of an empty list is an IndexError).
instantiation_legibility(levels, default) ==
    IF Len(levels) = 0 THEN "IndexError"
    ELSE IF \E i \in 1..Len(levels) : levels[i].ty # levels[1].ty THEN "ValueError"
    ELSE IF default.ty # levels[1].ty \/ default \notin Range(levels) THEN "ValueError"
    ELSE IF levels[1].ty = "str" THEN "literal"
    ELSE IF levels[1].ty = "int" THEN "numerical"
    ELSE "ValueError"

\* Constructor arguments tried: <<priority_levels, default_priority, ascending>>
DefaultLevels == <<StrV("high"), StrV("medium"), StrV("low")>>
NumericLevels == <<IntV(1), IntV(2), IntV(3)>>
CapitalLevels == <<StrV("High"), StrV("low")>>
ConstructorArgs ==
    { <<DefaultLevels, StrV("medium"), FALSE>>,
      <<NumericLevels, IntV(2), TRUE>>,
      <<CapitalLevels, StrV("High"), FALSE>>,
      <<NumericLevels, StrV("medium"), FALSE>>,
      <<<<StrV("high"), IntV(1)>>, StrV("high"), FALSE>>,
      <<DefaultLevels, StrV("urgent"), FALSE>>,
      <<<<FloatV(1), FloatV(2)>>, FloatV(1), FALSE>>,
      <<<<>>, StrV("medium"), FALSE>> }

Constructed(a) == instantiation_legibility(a[1], a[2]) \in {"literal", "numerical"}

Init ==
    \E a \in ConstructorArgs :
        /\ Constructed(a)
        /\ priorities_type = instantiation_legibility(a[1], a[2])
        /\ default_priority = a[2]
        /\ priority_levels = a[1]
        /\ priorities_order_ascending = a[3]
        /\ daily_added_tasks = Empty
        /\ daily_completed_tasks = Empty
        /\ to_do = Empty
        /\ done = Empty
        /\ file = [kind |-> "absent", doc |-> <<>>]
        /\ saved = [kind |-> "none", ext |-> "", data |-> <<>>]
        /\ report_file = [kind |-> "absent", text |-> <<>>]
        /\ call = [op |-> "__init__", opt |-> "", args |-> <<>>]
        /\ raised = "none"
        /\ printed = <<>>
        /\ ncalls = 0

\* no TaskManager yet: the state in which the constructor is called
NoTaskManager ==
    /\ priorities_type = "none"
    /\ default_priority = StrV("")
    /\ priority_levels = <<>>
    /\ priorities_order_ascending = FALSE
    /\ daily_added_tasks = Empty
    /\ daily_completed_tasks = Empty
    /\ to_do = Empty
    /\ done = Empty
    /\ file = [kind |-> "absent", doc |-> <<>>]
    /\ saved = [kind |-> "none", ext |-> "", data |-> <<>>]
    /\ report_file = [kind |-> "absent", text |-> <<>>]
    /\ call = [op |-> "none", opt |-> "", args |-> <<>>]
    /\ raised = "none"
    /\ printed = <<>>
    /\ ncalls = 0

\* TaskManager(priority_levels, default_priority, priorities_order_ascending):
\* an exception of instantiation_legibility leaves no object
New(a) ==
    /\ call.op = "none"
    /\ call' = [op |-> "__init__", opt |-> "", args |-> a]
    /\ \E r \in {instantiation_legibility(a[1], a[2])} :
        IF r \in {"literal", "numerical"}
        THEN /\ priorities_type' = r
             /\ default_priority' = a[2]
             /\ priority_levels' = a[1]
             /\ priorities_order_ascending' = a[3]
             /\ raised' = "none"
        ELSE /\ raised' = r
             /\ UNCHANGED config
    /\ UNCHANGED <<store, file, saved, report_file, printed, ncalls>>

(***************************************************************************)
(* _format_task_list: the sort of the listing.                             *)
(***************************************************************************)
\* list.index(v): the first position of v, 0 when v is absent (a ValueError)
Index(levels, v) ==
    IF \E i \in 1..Len(levels) : levels[i] = v
    THEN CHOOSE i \in 1..Len(levels) :
             levels[i] = v /\ \A j \in 1..(i - 1) : levels[j] # v
    ELSE 0

\* the sort key of one item <<task, priority>>
SortKey(e) ==
    IF priorities_type = "numerical" THEN Index(priority_levels, e[2])
    ELSE Index(priority_levels, LowerV(e[2]))

Reverse(q) == [i \in 1..Len(q) |-> q[Len(q) + 1 - i]]

\* one insertion of a stable ascending sort: e goes after every item whose
\* key is not greater
InsertByKey(res, e) ==
    LET n == Cardinality({i \in 1..Len(res) : SortKey(res[i]) <= SortKey(e)})
    IN  SubSeq(res, 1, n) \o <<e>> \o SubSeq(res, n + 1, Len(res))

RECURSIVE StableSort(_)
StableSort(items) ==
    IF items = <<>> THEN <<>>
    ELSE InsertByKey(StableSort(SubSeq(items, 1, Len(items) - 1)), items[Len(items)])

\* Sorted with reverse done as a reversal of the ascending result
Sorted_ResultReversed(items, reverse) ==
    IF reverse THEN Reverse(StableSort(items)) ELSE StableSort(items)

\* sorted(items, key=..., reverse=r): with reverse the input is reversed,
\* sorted ascending and stably, and reversed again
Sorted(items, reverse) ==
    IF reverse THEN Reverse(StableSort(Reverse(items))) ELSE StableSort(items)

\* the sort raises ValueError when index() does not find a priority
SortRaises(tasks) == \E i \in 1..Len(tasks) : SortKey(tasks[i]) = 0

\* sorted_tasks of _format_task_list for a non-empty dict whose sort succeeds
sorted_tasks(tasks) == Sorted(tasks, priorities_order_ascending)

\* _format_task_list(tasks, ...): the exception it raises, or "none"
FormatRaises(tasks) ==
    IF tasks = Empty THEN "none"
    ELSE IF SortRaises(tasks) THEN "ValueError"
    ELSE "none"

\* _format_task_list(tasks, ...): the rows of the listing, in order
FormatRows(tasks) ==
    IF tasks = Empty \/ SortRaises(tasks) THEN <<>> ELSE sorted_tasks(tasks)

(***************************************************************************)
(* add_task                                                                *)
(***************************************************************************)
\* _verify_task_priority(value, which_one): "ok", or the exception raised
_verify_task_priority(value, which_one) ==
    IF which_one = "priority"
    THEN LET actual_label == IF value.ty = "str" THEN "literal"
                             ELSE IF value.ty = "int" THEN "numerical"
                             ELSE "unknown"
         IN  IF actual_label = priorities_type THEN "ok" ELSE "ValueError"
    ELSE IF value.ty # "str" THEN "ValueError" ELSE "ok"

\* lowercase_tasks: computed once, before the loop over the arguments
lowercase_tasks(d) == {Lower(k) : k \in Keys(d)}

\* a membership test that every priority passes
PriorityInLevels_AnyPriority(priority) == TRUE

\* whether the priority passes the membership test of the loop body
PriorityInLevels(priority) ==
    IF priorities_type = "literal"
    THEN LowerV(priority) \in {LowerV(p) : p \in Range(priority_levels)}
    ELSE priority \in Range(priority_levels)

\* PlaceTask without the test that the name is already in to_do
PlaceTask_NoExistenceTest(acc, task, priority, lowered) ==
    IF PriorityInLevels(priority)
    THEN [acc EXCEPT !.to_do = Put(acc.to_do, task, priority),
                     !.daily = Put(acc.daily, task, priority),
                     !.added_tasks = Append(acc.added_tasks, task)]
    ELSE [acc EXCEPT !.not_added_priority = Append(acc.not_added_priority, task)]

\* the four branches of the loop body for one task and its priority
PlaceTask(acc, task, priority, lowered) ==
    LET exists == Lower(task) \in lowered
        valid == PriorityInLevels(priority)
    IN  IF ~exists /\ valid
        THEN [acc EXCEPT !.to_do = Put(acc.to_do, task, priority),
                         !.daily = Put(acc.daily, task, priority),
                         !.added_tasks = Append(acc.added_tasks, task)]
        ELSE IF exists /\ ~valid
        THEN [acc EXCEPT !.not_added = Append(acc.not_added, task)]
        ELSE IF exists
        THEN [acc EXCEPT !.not_added_existence = Append(acc.not_added_existence, task)]
        ELSE [acc EXCEPT !.not_added_priority = Append(acc.not_added_priority, task)]

\* one iteration of the loop: an argument is a (task, priority) tuple, a
\* task name, or anything else
AddItem(acc, item, lowered) ==
    IF item.kind = "pair"
    THEN IF _verify_task_priority(item.task, "task") # "ok"
            \/ _verify_task_priority(item.priority, "priority") # "ok"
         THEN [acc EXCEPT !.exc = "ValueError"]
         ELSE PlaceTask(acc, item.task.s, item.priority, lowered)
    ELSE IF item.kind = "name"
    THEN PlaceTask(acc, item.task.s, default_priority, lowered)
    ELSE [acc EXCEPT !.cant = Append(acc.cant, "other")]

\* the loop: an exception leaves it with the changes made so far
RECURSIVE AddLoop(_, _, _)
AddLoop(acc, items, lowered) ==
    IF items = <<>> \/ acc.exc # "none" THEN acc
    ELSE AddLoop(AddItem(acc, Head(items), lowered), Tail(items), lowered)

Entry(label, names) == IF names = <<>> THEN <<>> ELSE << <<label, names>> >>

\* add_task(*tasks_priorities): the mappings after, the exception, the output
add_task(items) ==
    LET acc0 == [to_do |-> to_do, daily |-> daily_added_tasks, exc |-> "none",
                 added_tasks |-> <<>>, not_added |-> <<>>,
                 not_added_existence |-> <<>>, not_added_priority |-> <<>>,
                 cant |-> <<>>]
        acc == AddLoop(acc0, items, lowercase_tasks(to_do))
        \* the response: current_state("to-do") in the "already in" message
        listing == IF acc.exc = "none" /\ acc.not_added_existence # <<>>
                   THEN FormatRaises(acc.to_do) ELSE "none"
        \* "; ".join(self.priority_levels) in the "invalid priority" message
        joining == IF acc.exc = "none" /\ listing = "none"
                      /\ acc.not_added_priority # <<>>
                      /\ priorities_type = "numerical"
                   THEN "TypeError" ELSE "none"
        exc == IF acc.exc # "none" THEN acc.exc
               ELSE IF listing # "none" THEN listing ELSE joining
        table == IF acc.exc = "none" /\ acc.not_added_existence # <<>>
                    /\ listing = "none"
                 THEN Entry("To-Do table", KeyList(FormatRows(acc.to_do)))
                 ELSE <<>>
        response == Entry("added successfully", acc.added_tasks)
                    \o Entry("not added to the To-Do list", acc.not_added)
                    \o Entry("already in the To-Do list", acc.not_added_existence)
                    \o Entry("invalid priority", acc.not_added_priority)
    IN  [to_do |-> acc.to_do, daily |-> acc.daily, exc |-> exc,
         printed |-> Entry("can't be added", acc.cant) \o table
                     \o (IF exc = "none" THEN response ELSE <<>>)]

\* a call is made on a TaskManager: its name, option and arguments are
\* recorded, the bound is kept
Called(op, opt, args) ==
    /\ ncalls < MaxCalls
    /\ priorities_type \in {"literal", "numerical"}
    /\ ncalls' = ncalls + 1
    /\ call' = [op |-> op, opt |-> opt, args |-> args]

AddTask(items) ==
    /\ Called("add_task", "", items)
    /\ \E r \in {add_task(items)} :
        /\ to_do' = r.to_do
        /\ daily_added_tasks' = r.daily
        /\ raised' = r.exc
        /\ printed' = r.printed
        /\ UNCHANGED <<done, daily_completed_tasks, config, file, saved, report_file>>

(***************************************************************************)
(* remove_task and task_done                                               *)
(***************************************************************************)
\* task_keys = {task.lower(): task for task in self.to_do.keys()}: of the
\* keys with one lower-case form the last one is kept
task_keys(d, low) ==
    LET at == {i \in 1..Len(d) : Lower(d[i][1]) = low}
    IN  d[CHOOSE i \in at : \A j \in at : j <= i][1]

\* one iteration of remove_task's loop; dict.pop of a missing key raises
RemoveItem(acc, task, before) ==
    IF Lower(task) \in lowercase_tasks(before)
    THEN LET og_task == task_keys(before, Lower(task))
         IN  IF ~Has(acc.to_do, og_task)
             THEN [acc EXCEPT !.exc = "KeyError"]
             ELSE IF ~Has(acc.daily, og_task)
             THEN [acc EXCEPT !.to_do = Pop(acc.to_do, og_task),
                              !.exc = "KeyError"]
             ELSE [acc EXCEPT !.to_do = Pop(acc.to_do, og_task),
                              !.daily = Pop(acc.daily, og_task),
                              !.removed_tasks = Append(acc.removed_tasks, og_task)]
    ELSE [acc EXCEPT !.not_found_tasks = Append(acc.not_found_tasks, task)]

RECURSIVE RemoveLoop(_, _, _)
RemoveLoop(acc, tasks, before) ==
    IF tasks = <<>> \/ acc.exc # "none" THEN acc
    ELSE RemoveLoop(RemoveItem(acc, Head(tasks), before), Tail(tasks), before)

\* remove_task(*tasks)
remove_task(tasks) ==
    LET acc0 == [to_do |-> to_do, daily |-> daily_added_tasks, exc |-> "none",
                 removed_tasks |-> <<>>, not_found_tasks |-> <<>>]
        acc == RemoveLoop(acc0, tasks, to_do)
    IN  [to_do |-> acc.to_do, daily |-> acc.daily, exc |-> acc.exc,
         printed |-> IF acc.exc # "none" THEN <<>>
                     ELSE Entry("removed successfully", acc.removed_tasks)
                          \o Entry("not found in the to-do list", acc.not_found_tasks)]

RemoveTask(tasks) ==
    /\ Called("remove_task", "", tasks)
    /\ \E r \in {remove_task(tasks)} :
        /\ to_do' = r.to_do
        /\ daily_added_tasks' = r.daily
        /\ raised' = r.exc
        /\ printed' = r.printed
        /\ UNCHANGED <<done, daily_completed_tasks, config, file, saved, report_file>>

\* DoneItem with the test of done made first, on the name as given
DoneItem_DoneTestedFirst(acc, task, before) ==
    IF Has(acc.done, task)
    THEN [acc EXCEPT !.already_done_tasks = Append(acc.already_done_tasks, task)]
    ELSE IF Lower(task) \in lowercase_tasks(before)
    THEN LET original_task == task_keys(before, Lower(task))
         IN  IF ~Has(acc.to_do, original_task)
             THEN [acc EXCEPT !.exc = "KeyError"]
             ELSE [acc EXCEPT
                     !.done = Put(acc.done, original_task,
                                  Get(acc.to_do, original_task)),
                     !.completed = Put(acc.completed, original_task,
                                       Get(acc.to_do, original_task)),
                     !.to_do = Pop(acc.to_do, original_task),
                     !.done_tasks = Append(acc.done_tasks, original_task)]
    ELSE [acc EXCEPT !.absent_tasks = Append(acc.absent_tasks, task)]

\* DoneItem recording the default priority for the task it moves
DoneItem_DefaultPriority(acc, task, before) ==
    IF Lower(task) \in lowercase_tasks(before)
    THEN LET original_task == task_keys(before, Lower(task))
         IN  IF ~Has(acc.done, original_task)
             THEN IF ~Has(acc.to_do, original_task)
                  THEN [acc EXCEPT !.exc = "KeyError"]
                  ELSE [acc EXCEPT
                          !.done = Put(acc.done, original_task, default_priority),
                          !.completed = Put(acc.completed, original_task,
                                            default_priority),
                          !.to_do = Pop(acc.to_do, original_task),
                          !.done_tasks = Append(acc.done_tasks, original_task)]
             ELSE [acc EXCEPT !.already_done_tasks =
                                  Append(acc.already_done_tasks, original_task)]
    ELSE [acc EXCEPT !.absent_tasks = Append(acc.absent_tasks, task)]

\* DoneItem marking as done, with the default priority, a task that to_do
\* does not hold
DoneItem_AbsentMarkedDone(acc, task, before) ==
    IF Lower(task) \in lowercase_tasks(before)
    THEN LET original_task == task_keys(before, Lower(task))
         IN  IF ~Has(acc.done, original_task)
             THEN IF ~Has(acc.to_do, original_task)
                  THEN [acc EXCEPT !.exc = "KeyError"]
                  ELSE [acc EXCEPT
                          !.done = Put(acc.done, original_task,
                                       Get(acc.to_do, original_task)),
                          !.completed = Put(acc.completed, original_task,
                                            Get(acc.to_do, original_task)),
                          !.to_do = Pop(acc.to_do, original_task),
                          !.done_tasks = Append(acc.done_tasks, original_task)]
             ELSE [acc EXCEPT !.already_done_tasks =
                                  Append(acc.already_done_tasks, original_task)]
    ELSE [acc EXCEPT !.done = Put(acc.done, task, default_priority),
                     !.completed = Put(acc.completed, task, default_priority),
                     !.done_tasks = Append(acc.done_tasks, task)]

\* one iteration of task_done's loop
DoneItem(acc, task, before) ==
    IF Lower(task) \in lowercase_tasks(before)
    THEN LET original_task == task_keys(before, Lower(task))
         IN  IF ~Has(acc.done, original_task)
             THEN IF ~Has(acc.to_do, original_task)
                  THEN [acc EXCEPT !.exc = "KeyError"]
                  ELSE [acc EXCEPT
                          !.done = Put(acc.done, original_task,
                                       Get(acc.to_do, original_task)),
                          !.completed = Put(acc.completed, original_task,
                                            Get(acc.to_do, original_task)),
                          !.to_do = Pop(acc.to_do, original_task),
                          !.done_tasks = Append(acc.done_tasks, original_task)]
             ELSE [acc EXCEPT !.already_done_tasks =
                                  Append(acc.already_done_tasks, original_task)]
    ELSE [acc EXCEPT !.absent_tasks = Append(acc.absent_tasks, task)]

RECURSIVE DoneLoop(_, _, _)
DoneLoop(acc, tasks, before) ==
    IF tasks = <<>> \/ acc.exc # "none" THEN acc
    ELSE DoneLoop(DoneItem(acc, Head(tasks), before), Tail(tasks), before)

\* task_done(*tasks)
task_done(tasks) ==
    LET acc0 == [to_do |-> to_do, done |-> done, completed |-> daily_completed_tasks,
                 exc |-> "none", done_tasks |-> <<>>, already_done_tasks |-> <<>>,
                 absent_tasks |-> <<>>]
        acc == DoneLoop(acc0, tasks, to_do)
    IN  [to_do |-> acc.to_do, done |-> acc.done, completed |-> acc.completed,
         exc |-> acc.exc,
         printed |-> IF acc.exc # "none" THEN <<>>
                     ELSE Entry("marked as done", acc.done_tasks)
                          \o Entry("already done", acc.already_done_tasks)
                          \o Entry("not in to-do list", acc.absent_tasks)]

TaskDone(tasks) ==
    /\ Called("task_done", "", tasks)
    /\ \E r \in {task_done(tasks)} :
        /\ to_do' = r.to_do
        /\ done' = r.done
        /\ daily_completed_tasks' = r.completed
        /\ raised' = r.exc
        /\ printed' = r.printed
        /\ UNCHANGED <<daily_added_tasks, config, file, saved, report_file>>

(***************************************************************************)
(* clear and current_state                                                 *)
(***************************************************************************)
Message(text) == << <<text, <<>>>> >>

\* clear without the tests that the list to clear holds a task
clear_NoEmptinessTest(which_one) ==
    LET same(text) == [to_do |-> to_do, done |-> done, added |-> daily_added_tasks,
                       completed |-> daily_completed_tasks, printed |-> Message(text)]
    IN  IF Lower(which_one) = "todo"
        THEN [same("To-do list is cleared successfully.")
                EXCEPT !.to_do = Empty, !.added = Empty]
        ELSE IF Lower(which_one) = "done"
        THEN [same("Done list is cleared successfully.")
                EXCEPT !.done = Empty, !.completed = Empty]
        ELSE IF Lower(which_one) = "both"
        THEN [same("Both lists are cleared successfully.")
                EXCEPT !.to_do = Empty, !.added = Empty,
                       !.done = Empty, !.completed = Empty]
        ELSE same("Invalid option.")

\* clear that empties a list of every option it does not know
clear_UnknownOptionClears(which_one) ==
    LET same(text) == [to_do |-> to_do, done |-> done, added |-> daily_added_tasks,
                       completed |-> daily_completed_tasks, printed |-> Message(text)]
    IN  IF Lower(which_one) = "done"
        THEN IF done # Empty
             THEN [same("Done list is cleared successfully.")
                     EXCEPT !.done = Empty, !.completed = Empty]
             ELSE same("Done list is empty.")
        ELSE IF Lower(which_one) = "both"
        THEN IF to_do # Empty
             THEN [same("Both lists are cleared successfully.")
                     EXCEPT !.to_do = Empty, !.added = Empty,
                            !.done = Empty, !.completed = Empty]
             ELSE same("Both lists are empty.None cleared.")
        ELSE IF to_do # Empty
             THEN [same("To-do list is cleared successfully.")
                     EXCEPT !.to_do = Empty, !.added = Empty]
             ELSE same("To-do list is empty.")

\* clear whose 'done' branch leaves daily_completed_tasks
clear_CompletedLedgerKept(which_one) ==
    LET same(text) == [to_do |-> to_do, done |-> done, added |-> daily_added_tasks,
                       completed |-> daily_completed_tasks, printed |-> Message(text)]
    IN  IF Lower(which_one) = "todo"
        THEN IF to_do # Empty
             THEN [same("To-do list is cleared successfully.")
                     EXCEPT !.to_do = Empty, !.added = Empty]
             ELSE same("To-do list is empty.")
        ELSE IF Lower(which_one) = "done"
        THEN IF done # Empty
             THEN [same("Done list is cleared successfully.")
                     EXCEPT !.done = Empty]
             ELSE same("Done list is empty.")
        ELSE IF Lower(which_one) = "both"
        THEN IF to_do # Empty
             THEN [same("Both lists are cleared successfully.")
                     EXCEPT !.to_do = Empty, !.added = Empty,
                            !.done = Empty, !.completed = Empty]
             ELSE same("Both lists are empty.None cleared.")
        ELSE same("Invalid option.")

\* clear whose 'done' branch empties daily_added_tasks as well
clear_AddedLedgerDropped(which_one) ==
    LET same(text) == [to_do |-> to_do, done |-> done, added |-> daily_added_tasks,
                       completed |-> daily_completed_tasks, printed |-> Message(text)]
    IN  IF Lower(which_one) = "todo"
        THEN IF to_do # Empty
             THEN [same("To-do list is cleared successfully.")
                     EXCEPT !.to_do = Empty, !.added = Empty]
             ELSE same("To-do list is empty.")
        ELSE IF Lower(which_one) = "done"
        THEN IF done # Empty
             THEN [same("Done list is cleared successfully.")
                     EXCEPT !.done = Empty, !.completed = Empty, !.added = Empty]
             ELSE same("Done list is empty.")
        ELSE IF Lower(which_one) = "both"
        THEN IF to_do # Empty
             THEN [same("Both lists are cleared successfully.")
                     EXCEPT !.to_do = Empty, !.added = Empty,
                            !.done = Empty, !.completed = Empty]
             ELSE same("Both lists are empty.None cleared.")
        ELSE same("Invalid option.")

\* clear(which_one): the four mappings after, and the message
clear(which_one) ==
    LET same(text) == [to_do |-> to_do, done |-> done, added |-> daily_added_tasks,
                       completed |-> daily_completed_tasks, printed |-> Message(text)]
    IN  IF Lower(which_one) = "todo"
        THEN IF to_do # Empty
             THEN [same("To-do list is cleared successfully.")
                     EXCEPT !.to_do = Empty, !.added = Empty]
             ELSE same("To-do list is empty.")
        ELSE IF Lower(which_one) = "done"
        THEN IF done # Empty
             THEN [same("Done list is cleared successfully.")
                     EXCEPT !.done = Empty, !.completed = Empty]
             ELSE same("Done list is empty.")
        ELSE IF Lower(which_one) = "both"
        THEN IF to_do # Empty
             THEN [same("Both lists are cleared successfully.")
                     EXCEPT !.to_do = Empty, !.added = Empty,
                            !.done = Empty, !.completed = Empty]
             ELSE same("Both lists are empty.None cleared.")
        ELSE same("Invalid option.")

Clear(which_one) ==
    /\ Called("clear", which_one, <<>>)
    /\ \E r \in {clear(which_one)} :
        /\ to_do' = r.to_do
        /\ done' = r.done
        /\ daily_added_tasks' = r.added
        /\ daily_completed_tasks' = r.completed
        /\ raised' = "none"
        /\ printed' = r.printed
        /\ UNCHANGED <<config, file, saved, report_file>>

\* the table _format_task_list prints for a non-empty dict
Table(title, tasks) ==
    IF tasks = Empty THEN <<>> ELSE << <<title, KeyList(FormatRows(tasks))>> >>

\* current_state(option): the exception and the tables printed
current_state(option) ==
    IF option = "both"
    THEN IF FormatRaises(to_do) # "none"
         THEN [exc |-> FormatRaises(to_do), printed |-> <<>>]
         ELSE IF FormatRaises(done) # "none"
         THEN [exc |-> FormatRaises(done), printed |-> Table("To-Do", to_do)]
         ELSE [exc |-> "none", printed |-> Table("To-Do", to_do) \o Table("Done", done)]
    ELSE IF option = "to-do"
    THEN IF FormatRaises(to_do) # "none"
         THEN [exc |-> FormatRaises(to_do), printed |-> <<>>]
         ELSE [exc |-> "none", printed |-> Table("To-Do", to_do)]
    ELSE IF option = "done"
    THEN IF FormatRaises(done) # "none"
         THEN [exc |-> FormatRaises(done), printed |-> <<>>]
         ELSE [exc |-> "none", printed |-> Table("Done", done)]
    ELSE [exc |-> "none", printed |-> Message("Invalid option.")]

CurrentState(option) ==
    /\ Called("current_state", option, <<>>)
    /\ \E r \in {current_state(option)} :
        /\ raised' = r.exc
        /\ printed' = r.printed
        /\ UNCHANGED <<store, config, file, saved, report_file>>

(***************************************************************************)
(* The text of _format_task_list, report and __str__                       *)
(***************************************************************************)
\* the string _format_task_list returns when it does not raise, as lines:
\* one line for an empty dict, or a title and a numbered row for each task
\* with its priority capitalized (a number is written as it is)
FormatText(tasks, which_one) ==
    IF tasks = Empty THEN << <<"No", which_one, "tasks.">> >>
    ELSE << <<Capitalize(which_one), "Tasks:">> >>
         \o [idx \in 1..Len(tasks) |->
               <<idx, FormatRows(tasks)[idx][1],
                 IF priorities_type = "literal"
                 THEN StrV(Capitalize(FormatRows(tasks)[idx][2].s))
                 ELSE FormatRows(tasks)[idx][2]>>]

\* report(report_content=...): the exception, the report file after, the output
report(report_content) ==
    IF daily_added_tasks = Empty /\ daily_completed_tasks = Empty
    THEN [exc |-> "none", file |-> report_file,
          printed |-> Message("Both lists are empty, are you willing to save nothing?")]
    ELSE IF FormatRaises(daily_added_tasks) # "none"
    THEN [exc |-> FormatRaises(daily_added_tasks), file |-> report_file,
          printed |-> <<>>]
    ELSE IF FormatRaises(daily_completed_tasks) # "none"
    THEN [exc |-> FormatRaises(daily_completed_tasks), file |-> report_file,
          printed |-> <<>>]
    ELSE LET todo_final == FormatText(daily_added_tasks, "To-Do")
             done_final == FormatText(daily_completed_tasks, "Done")
             heading == << <<"date.today()", "Tasks were:">> >>
         IN  [exc |-> "none",
              file |-> [kind |-> "text",
                        text |-> IF Lower(report_content) = "todo"
                                 THEN heading \o todo_final
                                 ELSE IF report_content = "done"
                                 THEN heading \o done_final
                                 ELSE heading \o todo_final \o done_final],
              printed |-> Message("Report successfully generated and saved")]

Report(report_content) ==
    /\ Called("report", report_content, <<>>)
    /\ \E r \in {report(report_content)} :
        /\ report_file' = r.file
        /\ raised' = r.exc
        /\ printed' = r.printed
        /\ UNCHANGED <<store, config, file, saved>>

\* str(tm): the exception, or the string returned
__str__ ==
    IF FormatRaises(to_do) # "none"
    THEN [exc |-> FormatRaises(to_do), text |-> <<>>]
    ELSE IF FormatRaises(done) # "none"
    THEN [exc |-> FormatRaises(done), text |-> <<>>]
    ELSE [exc |-> "none",
          text |-> << <<"Task Manger Current state:">> >>
                   \o FormatText(to_do, "to-do") \o FormatText(done, "done")]

\* the string returned is kept as the output of the call
Str ==
    /\ Called("__str__", "", <<>>)
    /\ \E r \in {__str__} :
        /\ raised' = r.exc
        /\ printed' = r.text
        /\ UNCHANGED <<store, config, file, saved, report_file>>

(***************************************************************************)
(* save_current_state and load_state                                       *)
(***************************************************************************)
\* json.dump(self.data): an object of four objects, members in dict order
JsonDump(t, d, a, c) ==
    << <<"to_do", t>>, <<"done", d>>,
       <<"daily added tasks", a>>, <<"daily completed tasks", c>> >>

\* a parsed JSON object as a dict: a repeated member name keeps the last value
RECURSIVE JsonObject(_)
JsonObject(members) ==
    IF members = <<>> THEN Empty
    ELSE LET m == members[Len(members)]
         IN  Put(JsonObject(SubSeq(members, 1, Len(members) - 1)), m[1], m[2])

\* data.get(name, {}) on the loaded document
DataGet(doc, name) ==
    IF Has(doc, name) THEN JsonObject(Get(doc, name)) ELSE Empty

\* save_current_state(path): the file after, and the message
save_current_state(ext) ==
    IF file.kind = "absent"
    THEN [file |-> file, printed |-> Message("invalid as a data file path to save to")]
    ELSE IF Lower(ext) # ".json"
    THEN [file |-> file, printed |-> Message("only .json files allowed")]
    ELSE [file |-> [kind |-> "json",
                    doc |-> JsonDump(to_do, done, daily_added_tasks,
                                     daily_completed_tasks)],
          printed |-> Message("Data written successfully")]

SaveCurrentState(ext) ==
    /\ Called("save_current_state", ext, <<>>)
    /\ \E r \in {save_current_state(ext)} :
        /\ file' = r.file
        /\ saved' = [kind |-> "data", ext |-> ext, data |-> store]
        /\ raised' = "none"
        /\ printed' = r.printed
        /\ UNCHANGED <<store, config, report_file>>

\* load_state(path): the four mappings after, and the message
load_state ==
    LET keep(text) == [to_do |-> to_do, done |-> done, added |-> daily_added_tasks,
                       completed |-> daily_completed_tasks, printed |-> Message(text)]
    IN  IF file.kind = "absent"
        THEN keep("No saved data found, keeping the existing state.")
        ELSE IF file.kind = "corrupt"
        THEN keep("Error parsing JSON, keeping the existing state.")
        ELSE [to_do |-> DataGet(file.doc, "to_do"),
              done |-> DataGet(file.doc, "done"),
              added |-> DataGet(file.doc, "daily added tasks"),
              completed |-> DataGet(file.doc, "daily completed tasks"),
              printed |-> Message("Data loaded successfully, ready to go!")]

LoadState ==
    /\ Called("load_state", "", <<>>)
    /\ \E r \in {load_state} :
        /\ to_do' = r.to_do
        /\ done' = r.done
        /\ daily_added_tasks' = r.added
        /\ daily_completed_tasks' = r.completed
        /\ raised' = "none"
        /\ printed' = r.printed
        /\ UNCHANGED <<config, file, saved, report_file>>

\* outside the program: an empty file is created at the data path (an empty
\* file is not a JSON document)
CreateFile ==
    /\ file.kind = "absent"
    /\ file' = [kind |-> "corrupt", doc |-> <<>>]
    /\ call' = [op |-> "touch", opt |-> "", args |-> <<>>]
    /\ UNCHANGED ncalls
    /\ raised' = "none"
    /\ printed' = <<>>
    /\ UNCHANGED <<store, config, saved, report_file>>

(***************************************************************************)
(* The arguments tried.                                                    *)
(***************************************************************************)
Names == {"a", "A", "b"}

\* priorities passed: one in the levels (in another case for strings), one
\* of the right type outside the levels, one of the other type
NameItem(n) == [kind |-> "name", task |-> StrV(n), priority |-> StrV("")]
PairItem(n, p) == [kind |-> "pair", task |-> StrV(n), priority |-> p]
ValidPriority == IF priorities_type = "literal" THEN StrV("HIGH") ELSE IntV(3)
OutsidePriority == IF priorities_type = "literal" THEN StrV("urgent") ELSE IntV(5)
WrongTypePriority == IF priorities_type = "literal" THEN IntV(3) ELSE StrV("HIGH")
Items == {NameItem(n) : n \in Names}
         \cup {PairItem("b", ValidPriority), PairItem("a", OutsidePriority),
               PairItem("A", WrongTypePriority)}

\* the items of the calls with several arguments: one name in two cases
MultiItems == {NameItem("a"), NameItem("A")}
MultiNames == {"a", "b"}

\* one argument from S, or from two to MaxArgs arguments from M
ArgLists(S, M) == {<<x>> : x \in S} \cup UNION {[1..k -> M] : k \in 2..MaxArgs}

ClearOptions == {"todo", "done", "both", "all"}
StateOptions == {"both", "to-do", "done", "todo"}
Extensions == {".json", ".txt"}
ReportContents == {"all", "todo", "done", "DONE"}

\* the API without the data file
Next ==
    \/ \E items \in ArgLists(Items, MultiItems) : AddTask(items)
    \/ \E tasks \in ArgLists(Names, MultiNames) : RemoveTask(tasks)
    \/ \E tasks \in ArgLists(Names, MultiNames) : TaskDone(tasks)
    \/ \E which_one \in ClearOptions : Clear(which_one)
    \/ \E option \in StateOptions : CurrentState(option)

Spec == Init /\ [][Next]_vars

\* the API with the data file, one argument a call
NextIO ==
    \/ \E item \in Items : AddTask(<<item>>)
    \/ \E task \in Names : TaskDone(<<task>>)
    \/ \E which_one \in ClearOptions : Clear(which_one)
    \/ \E ext \in Extensions : SaveCurrentState(ext)
    \/ LoadState
    \/ CreateFile

SpecIO == Init /\ [][NextIO]_vars

\* the API from the constructor call on, one argument a call, with the
\* report and str()
NextNew ==
    \/ \E a \in ConstructorArgs : New(a)
    \/ \E item \in Items : AddTask(<<item>>)
    \/ \E task \in Names : RemoveTask(<<task>>)
    \/ \E task \in Names : TaskDone(<<task>>)
    \/ \E which_one \in ClearOptions : Clear(which_one)
    \/ \E option \in StateOptions : CurrentState(option)
    \/ \E report_content \in ReportContents : Report(report_content)
    \/ Str

SpecNew == NoTaskManager /\ [][NextNew]_vars

(***************************************************************************)
(* The claims.                                                             *)
(***************************************************************************)
AllEmpty ==
    /\ to_do = Empty
    /\ done = Empty
    /\ daily_added_tasks = Empty
    /\ daily_completed_tasks = Empty

\* some key of d equals name when both are lower-cased
MatchesKey(d, name) == \E k \in Keys(d) : Lower(k) = Lower(name)

\* the names printed under a label
Reported(out, label) ==
    UNION {Range(out[i][2]) : i \in {j \in 1..Len(out) : out[j][1] = label}}

\* C1: in every state reachable through add_task, remove_task, task_done and
\* clear, no task name is a key of both to_do and done.
C1_NoNameInBothLists == Keys(to_do) \cap Keys(done) = {}

\* C2: for every name n that matches a key k of to_do ignoring case, after
\* task_done(n) the key k is no longer in to_do and is in done, and a further
\* task_done(n) adds nothing to done.
C2_TaskDoneMovesKey ==
    [][\A n \in Names :
          (call'.op = "task_done" /\ call'.args = <<n>>) =>
              /\ \A k \in Keys(to_do) :
                    Lower(k) = Lower(n) => k \notin Keys(to_do') /\ k \in Keys(done')
              /\ (task_done(<<n>>).done)' = done']_vars

\* C3: when to_do holds a key equal to n ignoring case, a separate call
\* add_task(n) or add_task((n, p)), for any priority p, leaves to_do, done,
\* daily_added_tasks and daily_completed_tasks unchanged.
C3_AddExistingChangesNothing ==
    [][(/\ call'.op = "add_task"
        /\ Len(call'.args) = 1
        /\ MatchesKey(to_do, call'.args[1].task.s))
          => UNCHANGED store]_vars

\* a state after add_task named, in another case, a task that to_do holds
C3_Witness ==
    /\ call.op = "add_task"
    /\ call.args = <<NameItem("A")>>
    /\ raised = "none"
    /\ "A" \in Reported(printed, "already in the To-Do list")
    /\ "a" \in Keys(to_do)
    /\ "A" \notin Keys(to_do)

\* C4: in every state reachable through add_task, remove_task, task_done and
\* clear, no two distinct keys of to_do are equal when lower-cased.
C4_KeysUniqueIgnoringCase ==
    \A k1, k2 \in Keys(to_do) : Lower(k1) = Lower(k2) => k1 = k2

\* C5: after clear('both'), called in any reachable state, the four mappings
\* are all empty.
C5_ClearBothEmptiesAll ==
    (call.op = "clear" /\ Lower(call.opt) = "both") => AllEmpty

\* C6: save_current_state(p) with a .json path p, followed after any further
\* calls by load_state(p), leaves the four mappings equal to those at the
\* save, whether or not a file existed at p before the save.
C6_SaveThenLoadRestores ==
    (call.op = "load_state" /\ saved.kind = "data" /\ Lower(saved.ext) = ".json")
        => store = saved.data

\* C7: remove_task never raises, each name that matches no to_do key is
\* reported as not found, and no key of to_do matching a name is left when
\* keys are unique ignoring case.
C7_RemoveNeverRaises ==
    [][\A tasks \in ArgLists(Names, MultiNames) :
          (call'.op = "remove_task" /\ call'.args = tasks) =>
              /\ raised' = "none"
              /\ \A i \in 1..Len(tasks) :
                    ~MatchesKey(to_do, tasks[i])
                        => tasks[i] \in Reported(printed', "not found in the to-do list")
              /\ C4_KeysUniqueIgnoringCase
                    => \A i \in 1..Len(tasks) : ~MatchesKey(to_do', tasks[i])]_vars

\* the priority is one of the configured levels: of their type, and equal to
\* one of them (ignoring case for strings)
InLevelSet(p) ==
    \E i \in 1..Len(priority_levels) :
        /\ priority_levels[i].ty = p.ty
        /\ Lower(priority_levels[i].s) = Lower(p.s)
        /\ priority_levels[i].n = p.n

\* C8: add_task given an item whose priority is not in the configured level
\* set returns normally with a report, raises nothing, and does not insert
\* the item into to_do or daily_added_tasks.
C8_InvalidPriorityOnlyReported ==
    [][\A item \in Items :
          (call'.op = "add_task" /\ call'.args = <<item>>
           /\ item.kind = "pair" /\ ~InLevelSet(item.priority))
              => /\ raised' = "none"
                 /\ printed' # <<>>
                 /\ to_do' = to_do
                 /\ daily_added_tasks' = daily_added_tasks]_vars

\* C9: load_state on a path with no file, or with a file of malformed JSON,
\* leaves the four mappings empty.
C9_LoadWithoutDataResets ==
    (call.op = "load_state" /\ file.kind \in {"absent", "corrupt"}) => AllEmpty

\* the position of an item in a dict
PositionIn(d, e) == CHOOSE i \in 1..Len(d) : d[i] = e

\* rows lists the items of tasks by the position of their priority in
\* priority_levels, descending when reverse, equal priorities in insertion order
ListedInOrder(tasks, rows, reverse) ==
    /\ Len(rows) = Len(tasks)
    /\ Range(rows) = Range(tasks)
    /\ \A i, j \in 1..Len(rows) :
          i < j =>
              /\ IF reverse THEN SortKey(rows[i]) >= SortKey(rows[j])
                            ELSE SortKey(rows[i]) <= SortKey(rows[j])
              /\ SortKey(rows[i]) = SortKey(rows[j])
                    => PositionIn(tasks, rows[i]) < PositionIn(tasks, rows[j])

C11_ClearEmptyChangesNothing ==
    [][call'.op = "clear" =>
          /\ (Lower(call'.opt) = "todo" /\ to_do = Empty)
                => UNCHANGED store /\ printed' = Message("To-do list is empty.")
          /\ (Lower(call'.opt) = "done" /\ done = Empty)
                => UNCHANGED store /\ printed' = Message("Done list is empty.")
          /\ (Lower(call'.opt) = "both" /\ to_do = Empty /\ done = Empty)
                => UNCHANGED store
                   /\ printed' = Message("Both lists are empty.None cleared.")]_vars

\* a state after clear('todo') found to_do empty and daily_added_tasks not
C11_Witness ==
    /\ call.op = "clear"
    /\ call.opt = "todo"
    /\ printed = Message("To-do list is empty.")
    /\ to_do = Empty
    /\ daily_added_tasks # Empty

\* C12: in every state reachable through add_task, remove_task, task_done and
\* clear, every priority stored in to_do, done, daily_added_tasks or
\* daily_completed_tasks is one of priority_levels, compared ignoring case
\* for strings and exactly for integers.
C12_StoredPrioritiesInLevels ==
    \A d \in {to_do, done, daily_added_tasks, daily_completed_tasks} :
        \A i \in 1..Len(d) : InLevelSet(d[i][2])

\* a priority given in another case than its level is stored as given, in
\* to_do and then in done
C12_Witness ==
    /\ \E i \in 1..Len(done) :
          done[i][2] \notin Range(priority_levels) /\ done[i][2].ty = "str"
    /\ \E i \in 1..Len(to_do) : to_do[i][2] = default_priority
    /\ daily_completed_tasks # Empty

\* the report call of the step wrote its file
ReportWritten == printed' = Message("Report successfully generated and saved")

\* C13: report never changes the four mappings, it writes a file exactly
\* when daily_added_tasks or daily_completed_tasks holds a task, and the text
\* written is made of daily_added_tasks and daily_completed_tasks only.
C13_ReportOfDailyLedgers ==
    [][call'.op = "report" =>
          /\ UNCHANGED store
          /\ ReportWritten
                <=> (daily_added_tasks # Empty \/ daily_completed_tasks # Empty)
          /\ ReportWritten =>
                /\ report_file'.kind = "text"
                /\ report_file'.text =
                      << <<"date.today()", "Tasks were:">> >>
                      \o (IF call'.opt = "done" THEN <<>>
                          ELSE FormatText(daily_added_tasks, "To-Do"))
                      \o (IF Lower(call'.opt) = "todo" THEN <<>>
                          ELSE FormatText(daily_completed_tasks, "Done"))
          /\ ~ReportWritten => report_file' = report_file]_vars

\* C14: task_done(n) with n matching no key of to_do ignoring case leaves
\* the four mappings unchanged and reports n as not in the to-do list, also
\* when n is a key of done; it reports 'already done' only for a key of
\* to_do that matches n and is a key of done too, and then also leaves the
\* four mappings unchanged.
C14_TaskDoneOfAbsentTask ==
    [][\A n \in Names :
          (call'.op = "task_done" /\ call'.args = <<n>>) =>
              /\ raised' = "none"
              /\ ~MatchesKey(to_do, n)
                    => /\ UNCHANGED store
                       /\ printed' = Entry("not in to-do list", <<n>>)
              /\ Reported(printed', "already done") # {}
                    => /\ UNCHANGED store
                       /\ \E k \in Keys(to_do) \cap Keys(done) :
                             /\ Lower(k) = Lower(n)
                             /\ printed' = Entry("already done", <<k>>)]_vars

\* a state after task_done named a key of done that no key of to_do matches
C14_Witness ==
    /\ call.op = "task_done"
    /\ Len(call.args) = 1
    /\ call.args[1] \in Keys(done)
    /\ ~MatchesKey(to_do, call.args[1])
    /\ printed = Entry("not in to-do list", call.args)

\* the constructor arguments meet the conditions on them: the levels have one
\* type, str or int, and the default has that type and is one of the levels
Legible(levels, default) ==
    /\ levels # <<>>
    /\ \A i \in 1..Len(levels) : levels[i].ty = levels[1].ty
    /\ levels[1].ty \in {"str", "int"}
    /\ default.ty = levels[1].ty
    /\ default \in Range(levels)

\* C15: the constructor succeeds only if the priority levels have one type,
\* str or int, and the default priority has that type and is one of them;
\* with any other arguments, an empty list of levels included, it raises
\* ValueError; on success priorities_type is 'literal' for strings and
\* 'numerical' for integers.
C15_ConstructionChecksArguments ==
    call.op = "__init__" =>
        IF Legible(call.args[1], call.args[2])
        THEN /\ raised = "none"
             /\ priorities_type = IF call.args[1][1].ty = "str" THEN "literal"
                                  ELSE "numerical"
        ELSE /\ raised = "ValueError"
             /\ priorities_type = "none"

\* the step moves the key k from to_do to done
Moved(k) == Has(to_do, k) /\ ~Has(done, k) /\ Has(done', k)

\* C16: when task_done moves a key k, done[k] and daily_completed_tasks[k]
\* are the priority k had in to_do, k has left to_do, every other entry of
\* to_do and of done is unchanged, and daily_added_tasks is unchanged.
C16_TaskDoneKeepsPriority ==
    [][call'.op = "task_done" =>
          /\ \A k \in Keys(to_do) :
                IF Moved(k)
                THEN /\ Get(done', k) = Get(to_do, k)
                     /\ Has(daily_completed_tasks', k)
                     /\ Get(daily_completed_tasks', k) = Get(to_do, k)
                     /\ ~Has(to_do', k)
                ELSE /\ Has(to_do', k)
                     /\ Get(to_do', k) = Get(to_do, k)
          /\ Keys(to_do') \subseteq Keys(to_do)
          /\ \A k \in Keys(done) : Has(done', k) /\ Get(done', k) = Get(done, k)
          /\ Keys(done') \subseteq Keys(done) \cup Keys(to_do)
          /\ daily_added_tasks' = daily_added_tasks]_vars

\* a state after task_done moved a task whose priority is not the default,
\* with another task left in to_do: the task is in both daily ledgers
C16_Witness ==
    /\ call.op = "task_done"
    /\ to_do # Empty
    /\ \E k \in Reported(printed, "marked as done") :
          /\ Has(done, k)
          /\ Get(done, k) # default_priority
          /\ Has(daily_completed_tasks, k)
          /\ Get(daily_completed_tasks, k) = Get(done, k)
          /\ Has(daily_added_tasks, k)
          /\ Get(daily_added_tasks, k) = Get(done, k)

\* C17: clear('todo') on a non-empty to_do empties to_do and
\* daily_added_tasks and leaves done and daily_completed_tasks unchanged;
\* clear('done') on a non-empty done empties done and daily_completed_tasks
\* and leaves to_do and daily_added_tasks unchanged; clear with an option
\* other than 'todo', 'done' and 'both' leaves the four mappings unchanged.
C17_ClearOneList ==
    [][call'.op = "clear" =>
          /\ (Lower(call'.opt) = "todo" /\ to_do # Empty)
                => /\ to_do' = Empty
                   /\ daily_added_tasks' = Empty
                   /\ UNCHANGED <<done, daily_completed_tasks>>
          /\ (Lower(call'.opt) = "done" /\ done # Empty)
                => /\ done' = Empty
                   /\ daily_completed_tasks' = Empty
                   /\ UNCHANGED <<to_do, daily_added_tasks>>
          /\ Lower(call'.opt) \notin {"todo", "done", "both"}
                => UNCHANGED store]_vars

\* a state after clear('todo') emptied to_do and daily_added_tasks and left
\* the done list
C17_Witness ==
    /\ call.op = "clear"
    /\ call.opt = "todo"
    /\ printed = Message("To-do list is cleared successfully.")
    /\ to_do = Empty
    /\ daily_added_tasks = Empty
    /\ done # Empty
    /\ daily_completed_tasks # Empty

\* C18: load_state aside, which replaces the mappings, a key enters done
\* only in a task_done step before which it is a key of to_do, and leaves
\* done only in a clear step; add_task and remove_task never change done or
\* daily_completed_tasks.
C18_DoneListLifecycle ==
    [][call'.op # "load_state" =>
          /\ \A k \in Keys(done') \ Keys(done) :
                call'.op = "task_done" /\ Has(to_do, k)
          /\ \A k \in Keys(done) \ Keys(done') : call'.op = "clear"
          /\ call'.op \in {"add_task", "remove_task"}
                => UNCHANGED <<done, daily_completed_tasks>>]_vars

\* a state after remove_task named a completed task: the task is still done
C18_Witness ==
    /\ call.op = "remove_task"
    /\ \E i \in 1..Len(call.args) :
          /\ Has(done, call.args[i])
          /\ Has(daily_completed_tasks, call.args[i])
          /\ call.args[i] \in Reported(printed, "not found in the to-do list")

\* the loop body run as separate calls: each call computes the lower-case
\* names from the to_do it finds
RECURSIVE SeparateAdds(_, _)
SeparateAdds(acc, items) ==
    IF items = <<>> THEN acc
    ELSE SeparateAdds(AddItem(acc, Head(items), lowercase_tasks(acc.to_do)),
                      Tail(items))

\* C19: one add_task call with the items i1, ..., ik, each a name or a pair
\* with a priority of the configured type, leaves the four mappings as the
\* calls add_task(i1), ..., add_task(ik) made in that order leave them.
C19_BatchAddAsSeparateAdds ==
    [][(/\ call'.op = "add_task"
        /\ \A i \in 1..Len(call'.args) :
              \/ call'.args[i].kind = "name"
              \/ _verify_task_priority(call'.args[i].priority, "priority") = "ok")
          => \E sep \in {SeparateAdds([to_do |-> to_do, daily |-> daily_added_tasks,
                                       exc |-> "none", added_tasks |-> <<>>,
                                       not_added |-> <<>>,
                                       not_added_existence |-> <<>>,
                                       not_added_priority |-> <<>>, cant |-> <<>>],
                                      call'.args)} :
                /\ to_do' = sep.to_do
                /\ daily_added_tasks' = sep.daily
                /\ UNCHANGED <<done, daily_completed_tasks>>]_vars

\* C20: in every accepted configuration and every store reachable through
\* add_task, task_done, remove_task and clear, current_state, str() and
\* report raise nothing: the sort key finds every stored priority in
\* priority_levels.
C20_ListingNeverRaises ==
    /\ call.op \in {"current_state", "__str__", "report"} => raised = "none"
    /\ \A d \in {to_do, done, daily_added_tasks, daily_completed_tasks} :
          ~SortRaises(d)

\* C21: in every state reachable from an empty TaskManager through add_task,
\* remove_task, task_done and clear, daily_completed_tasks and done are equal
\* as mappings: the same keys with the same priorities.
C21_CompletedLedgerIsDone ==
    /\ Keys(daily_completed_tasks) = Keys(done)
    /\ \A k \in Keys(done) : Get(daily_completed_tasks, k) = Get(done, k)

\* a state after task_done in which done holds two tasks of different
\* priorities, and daily_completed_tasks the same two
C21_Witness ==
    /\ call.op = "task_done"
    /\ Len(done) = 2
    /\ done[1][2] # done[2][2]
    /\ Keys(daily_completed_tasks) = Keys(done)
    /\ \A k \in Keys(done) : Get(daily_completed_tasks, k) = Get(done, k)

\* C22: in every state reachable from an empty TaskManager through add_task,
\* remove_task, task_done and clear, every key of to_do is a key of
\* daily_added_tasks with the same priority, so every key that a remove_task
\* step pops from to_do it pops from daily_added_tasks too.
C22_ToDoWithinAddedLedger ==
    /\ [](\A k \in Keys(to_do) :
             Has(daily_added_tasks, k) /\ Get(daily_added_tasks, k) = Get(to_do, k))
    /\ [][call'.op = "remove_task" =>
             \A k \in Keys(to_do) \ Keys(to_do') :
                 Has(daily_added_tasks, k) /\ ~Has(daily_added_tasks', k)]_vars

\* a state with a task to do, and in daily_added_tasks a key that is in
\* neither to_do nor done
C22_Witness ==
    /\ to_do # Empty
    /\ Keys(to_do) \subseteq Keys(daily_added_tasks)
    /\ Keys(daily_added_tasks) \ (Keys(to_do) \cup Keys(done)) # {}

====
